---- MODULE Spec2Model ----
(***************************************************************************)
(* The demultiplexing listener of tokio_kcp (src/src/listener.rs).         *)
(*                                                                         *)
(* One task runs the listener loop of KcpListener::bind: a select! over    *)
(* the close-notification channel and the UDP socket.  The loop owns the   *)
(* session table (KcpSessionManager), hands new streams to accept() over a *)
(* bounded channel and forwards every datagram to its session's input.     *)
(*                                                                         *)
(* KcpSessionManager and KcpSession live in session.rs, which is not part  *)
(* of the source at hand: alloc_conv, get_or_create, close_conv, the       *)
(* session's input and the session's close notification are modelled from  *)
(* the specification (sections 4.1, 5 and 6).                              *)
(***************************************************************************)
EXTENDS Integers, Sequences, FiniteSets, TLC

\* ------------------------------------------------------------------ bounds
\* Conversation identifiers are u32 in the code; the model uses 0..MaxConv.
MaxConv == 2
\* Number of datagrams the socket delivers in one run.
MaxRecv == 3
\* Number of close notifications pushed in one run.
MaxClose == 2
\* Capacity of the accept channel: 1024 in the code (listener.rs:38),
\* scaled down so that a full queue is reachable.
Backlog == 2
\* Capacity of the close-notification channel (listener.rs:40).
CloseCap == 64

Convs == 1..MaxConv
\* Two peer addresses: enough for the same and for another source address.
Peers == {"a", "b"}
Sids == 1..MaxRecv
\* Datagram lengths: an empty datagram, and one long enough to hold a header.
PacketLens == {0, 24}

\* The header conv of a datagram of n bytes; a datagram too short to hold
\* one has none (written -1).
Headers(n) == IF n < 4 THEN {-1} ELSE 0..MaxConv

NoPkt == [sid |-> 0, seq |-> 0, conv |-> 0]
NoSession == [sid |-> 0, conv |-> 0, peer |-> "none"]
\* ev: a datagram (its header conv, its peer, the conv the loop resolved,
\* whether get_or_create failed), a close notification (its conv, its sender, whether the table held the
\* conv, whether the step before closed the same conv), or nothing.
NoEv == [type |-> "none"]

VARIABLES
    task,       \* the loop task: "running", "aborted" (listener dropped),
                \* "panicked" (get_conv), "fatal" (close channel closed)
    pc,         \* where the loop is suspended: "select", "input", "sleep"
    sessions,   \* KcpSessionManager: conv -> [sid, conv, peer]
    acceptQ,    \* accept channel: sequence of [sid, conv, peer]
    closeChan,  \* close channel: sequence of [conv, by, k]
    cur,        \* the packet session.input is being awaited for, or NoPkt
    inputs,     \* sid -> sequence of packets the session's input observed
    made,       \* the conv of every session object created, by sid
    nRecv,      \* datagrams recv_from has returned so far
    nPush,      \* close notifications pushed so far
    accepted,   \* history: the items accept() returned, in order
    ev,         \* the event the loop handled in the step just taken
    dropped,    \* the KcpListener handle has been dropped
    acceptFailed \* accept() has returned its "channel closed" error

vars == <<task, pc, sessions, acceptQ, closeChan, cur, inputs, made, nRecv,
          nPush, accepted, ev, dropped, acceptFailed>>

\* ------------------------------------------------- session table (spec 4.1)
EmptyTable == [c \in {} |-> NoSession]

\* alloc_conv: any identifier that is not 0 and not in the table.
alloc_conv(tbl) == {c \in Convs : c \notin DOMAIN tbl}

\* close_conv: removal; removing an absent identifier is a no-op.
close_conv(tbl, conv) == [c \in DOMAIN tbl \ {conv} |-> tbl[c]]

\* get_or_create: the existing session whatever the peer address, or a new
\* session bound to peer; fail is the engine failing to initialise, which
\* leaves the table unchanged.
get_or_create(tbl, conv, peer, sid, fail) ==
    IF conv \in DOMAIN tbl
    THEN [ok |-> TRUE, created |-> FALSE, tbl |-> tbl, s |-> tbl[conv]]
    ELSE IF fail
    THEN [ok |-> FALSE, created |-> FALSE, tbl |-> tbl, s |-> NoSession]
    ELSE LET new == [sid |-> sid, conv |-> conv, peer |-> peer]
         IN  [ok |-> TRUE, created |-> TRUE,
              tbl |-> (conv :> new) @@ tbl, s |-> new]

Init ==
    /\ task = "running"
    /\ pc = "select"
    /\ sessions = EmptyTable
    /\ acceptQ = <<>>
    /\ closeChan = <<>>
    /\ cur = NoPkt
    /\ inputs = [s \in Sids |-> <<>>]
    /\ made = <<>>
    /\ nRecv = 0
    /\ nPush = 0
    /\ accepted = <<>>
    /\ ev = NoEv
    /\ dropped = FALSE
    /\ acceptFailed = FALSE

\* -------------------------------------------------- the loop (listener.rs)
\* kcp::get_conv(packet) on packet = packet_buffer[..n]: reads the u32 at
\* the head of the datagram.  There is no length check before the call, so
\* a datagram shorter than the field makes the read panic.
get_conv(n, hdr) ==
    IF n < 4 THEN [panic |-> TRUE, conv |-> 0]
    ELSE [panic |-> FALSE, conv |-> hdr]

ResolveConvNoAlloc(hdr, fresh) == hdr

\* if conv == 0 { conv = sessions.alloc_conv(); kcp::set_conv(packet, conv) }
ResolveConv(hdr, fresh) == IF hdr = 0 THEN fresh ELSE hdr

PacketHeaderRaw(hdr, conv) == hdr

\* The header of the packet handed to input: kcp::set_conv(packet, conv)
\* rewrites it in place, in the conv == 0 branch only.
PacketHeader(hdr, conv) == IF hdr = 0 THEN conv ELSE hdr

AfterCreateErrPanic == "panicked"

\* Err(err) => { error!(..); continue }: the task goes on to the next event.
AfterCreateErr == "running"

NeedsAcceptAlways(created) == TRUE

\* if created { ... accept_tx.try_send(...) }
NeedsAccept(created) == created

try_send_unbounded(q, item) == [ok |-> TRUE, q |-> Append(q, item)]

try_send_front(q, item) ==
    IF Len(q) < Backlog
    THEN [ok |-> TRUE, q |-> <<item>> \o q]
    ELSE [ok |-> FALSE, q |-> q]

\* accept_tx.try_send((stream, peer_addr)) on the bounded channel
try_send(q, item) ==
    IF Len(q) < Backlog
    THEN [ok |-> TRUE, q |-> Append(q, item)]
    ELSE [ok |-> FALSE, q |-> q]

OnSendFailClear(tbl, conv) == EmptyTable

OnSendFailKeep(tbl, conv) == tbl

\* "remove it from session": sessions.close_conv(conv); continue
OnSendFail(tbl, conv) == close_conv(tbl, conv)

ForwardFront(log, pkt) == <<pkt>> \o log

\* session.input(packet).await: the session observes the packet after all
\* the packets of earlier iterations
Forward(log, pkt) == Append(log, pkt)

\* One received datagram, from recv_from returning Ok((n, peer_addr)) to
\* the loop's next suspension: the select!, or the await of session.input.
\*   n     the datagram's length         hdr   the conv in its header
\*   fresh the value alloc_conv returns  fail  get_or_create's engine fails
Datagram(n, hdr, peer, fresh, fail) ==
    /\ task = "running"
    /\ pc = "select"
    /\ nRecv < MaxRecv
    /\ nRecv' = nRecv + 1
    /\ LET g    == get_conv(n, hdr)
           conv == ResolveConv(g.conv, fresh)
           sid  == Len(made) + 1
           r    == get_or_create(sessions, conv, peer, sid, fail)
           item == [sid |-> r.s.sid, conv |-> conv, peer |-> peer]
           ts   == IF NeedsAccept(r.created) THEN try_send(acceptQ, item)
                   ELSE [ok |-> TRUE, q |-> acceptQ]
           dg   == [type |-> "datagram", hdr |-> hdr, peer |-> peer,
                    conv |-> conv, failed |-> ~g.panic /\ ~r.ok]
       IN
       IF g.panic
       THEN /\ task' = "panicked"
            /\ ev' = dg
            /\ UNCHANGED <<pc, sessions, acceptQ, cur, made>>
       ELSE IF ~r.ok
       THEN /\ task' = AfterCreateErr
            /\ ev' = dg
            /\ UNCHANGED <<pc, sessions, acceptQ, cur, made>>
       ELSE IF ~ts.ok
       THEN /\ sessions' = OnSendFail(r.tbl, conv)
            /\ made' = Append(made, conv)
            /\ ev' = dg
            /\ UNCHANGED <<task, pc, acceptQ, cur>>
       ELSE /\ sessions' = r.tbl
            /\ acceptQ' = ts.q
            /\ made' = IF r.created THEN Append(made, conv) ELSE made
            /\ cur' = [sid |-> r.s.sid, seq |-> nRecv + 1,
                       conv |-> PacketHeader(g.conv, conv)]
            /\ pc' = "input"
            /\ ev' = dg
            /\ UNCHANGED task
    /\ UNCHANGED <<closeChan, inputs, accepted, nPush, dropped,
                   acceptFailed>>

\* session.input(packet).await returns: the loop goes back to the select!.
InputDone ==
    /\ task = "running"
    /\ pc = "input"
    /\ inputs' = [inputs EXCEPT ![cur.sid] = Forward(@, cur)]
    /\ cur' = NoPkt
    /\ pc' = "select"
    /\ ev' = NoEv
    /\ UNCHANGED <<task, sessions, acceptQ, closeChan, made, nRecv, nPush,
                   accepted, dropped, acceptFailed>>

RecvErrUnwrap ==
    /\ task = "running"
    /\ pc = "select"
    /\ pc' = "sleep"
    /\ task' = "panicked"
    /\ ev' = NoEv
    /\ UNCHANGED <<sessions, acceptQ, closeChan, cur, inputs, made,
                   nRecv, nPush, accepted, dropped, acceptFailed>>

\* recv_from fails: the loop logs and sleeps one second.
RecvErr ==
    /\ task = "running"
    /\ pc = "select"
    /\ pc' = "sleep"
    /\ ev' = NoEv
    /\ UNCHANGED <<task, sessions, acceptQ, closeChan, cur, inputs, made,
                   nRecv, nPush, accepted, dropped, acceptFailed>>

\* time::sleep(1s) elapses.
Wake ==
    /\ task = "running"
    /\ pc = "sleep"
    /\ pc' = "select"
    /\ ev' = NoEv
    /\ UNCHANGED <<task, sessions, acceptQ, closeChan, cur, inputs, made,
                   nRecv, nPush, accepted, dropped, acceptFailed>>

CloseTxHoldersSessions == {sessions[c].sid : c \in DOMAIN sessions}

\* Holders of a sender of the close channel: the loop's own close_tx, and
\* the clone get_or_create hands to each session (those in the table).
CloseTxHolders ==
    (IF task = "running" THEN {0} ELSE {})
        \cup {sessions[c].sid : c \in DOMAIN sessions}

CloseBranchOthers(tbl, msg) ==
    [task |-> "running",
     tbl |-> [c \in DOMAIN tbl \cap {msg.conv} |-> tbl[c]]]

CloseBranchStrict(tbl, msg) ==
    IF msg.by = 0 \/ msg.conv \notin DOMAIN tbl
    THEN [task |-> "fatal", tbl |-> tbl]
    ELSE [task |-> "running", tbl |-> close_conv(tbl, msg.conv)]

\* conv = close_rx.recv() => { conv.expect(..); sessions.close_conv(conv) }
\* msg.by = 0 stands for recv() returning None.
CloseBranch(tbl, msg) ==
    IF msg.by = 0
    THEN [task |-> "fatal", tbl |-> tbl]
    ELSE [task |-> "running", tbl |-> close_conv(tbl, msg.conv)]

\* The select! takes the close branch: close_rx.recv() is ready with the
\* oldest notification, or with None once no sender is left.
CloseRecv ==
    /\ task = "running"
    /\ pc = "select"
    /\ closeChan # <<>> \/ CloseTxHolders = {}
    /\ LET msg == IF closeChan # <<>> THEN Head(closeChan)
                  ELSE [conv |-> 0, by |-> 0, k |-> 0]
           b   == CloseBranch(sessions, msg)
       IN  /\ task' = b.task
           /\ sessions' = b.tbl
           /\ closeChan' = IF closeChan # <<>> THEN Tail(closeChan)
                           ELSE closeChan
           /\ ev' = [type |-> "close", conv |-> msg.conv, by |-> msg.by,
                     present |-> msg.conv \in DOMAIN sessions,
                     again |-> ev.type = "close" /\ ev.conv = msg.conv]
    /\ UNCHANGED <<pc, acceptQ, cur, inputs, made, nRecv, nPush, accepted,
                   dropped, acceptFailed>>

accept_recv_keep(q) == [item |-> Head(q), q |-> q]

\* self.accept_rx.recv().await yielding Some(s)
accept_recv(q) == [item |-> Head(q), q |-> Tail(q)]

\* Holders of a sender of the accept channel: accept_tx, moved into the
\* loop task and dropped when the task ends.
AcceptTxHolders == IF task = "running" THEN {0} ELSE {}

accept_closed_early(q, senders) == senders = {}

\* accept_rx.recv() yields None: every sender is dropped and no item is
\* left in the channel.
accept_closed(q, senders) == q = <<>> /\ senders = {}

\* KcpListener::accept: the oldest queued item, or the error once the
\* channel is closed; it waits while the queue is empty and a sender lives.
Accept ==
    /\ ~dropped
    /\ IF accept_closed(acceptQ, AcceptTxHolders)
       THEN /\ ~acceptFailed
            /\ acceptFailed' = TRUE
            /\ UNCHANGED <<acceptQ, accepted>>
       ELSE /\ acceptQ # <<>>
            /\ Len(accepted) < MaxRecv
            /\ LET a == accept_recv(acceptQ)
               IN  /\ acceptQ' = a.q
                   /\ accepted' = Append(accepted, a.item)
            /\ UNCHANGED acceptFailed
    /\ ev' = NoEv
    /\ UNCHANGED <<task, pc, sessions, closeChan, cur, inputs, made, nRecv,
                   nPush, dropped>>

DropListenerDetach ==
    /\ ~dropped
    /\ dropped' = TRUE
    /\ ev' = NoEv
    /\ UNCHANGED <<task, pc, sessions, acceptQ, closeChan, cur, inputs, made,
                   nRecv, nPush, accepted, acceptFailed>>

\* Drop for KcpListener: task_watcher.abort().  A running task is cancelled
\* at the await it is suspended in and its state is kept as it was; a task
\* that has ended already is left alone.
DropListener ==
    /\ ~dropped
    /\ dropped' = TRUE
    /\ task' = IF task = "running" THEN "aborted" ELSE task
    /\ ev' = NoEv
    /\ UNCHANGED <<pc, sessions, acceptQ, closeChan, cur, inputs, made,
                   nRecv, nPush, accepted, acceptFailed>>

\* ---------------------------------------------- sessions (spec 5 and 6)
\* A session pushes its own conv onto the close-notification channel: its
\* stream was dropped by the caller, or its engine reached a terminal state.
\* Any session object created so far may do so, also one no longer in the
\* table and one that has pushed before.
SessionClose(sid) ==
    /\ task = "running"
    /\ sid \in 1..Len(made)
    /\ nPush < MaxClose
    /\ Len(closeChan) < CloseCap
    /\ nPush' = nPush + 1
    /\ closeChan' = Append(closeChan,
            [conv |-> made[sid], by |-> sid, k |-> nPush + 1])
    /\ ev' = NoEv
    /\ UNCHANGED <<task, pc, sessions, acceptQ, cur, inputs, made, nRecv,
                   accepted, dropped, acceptFailed>>

\* A zero-identifier datagram is taken only while alloc_conv has a free
\* identifier to return: with u32 identifiers the table is never full.
Next ==
    \/ \E n \in PacketLens, peer \in Peers, fail \in BOOLEAN :
          \E hdr \in Headers(n) :
              \E fresh \in (IF hdr = 0 THEN alloc_conv(sessions) ELSE {0}) :
                  Datagram(n, hdr, peer, fresh, fail)
    \/ InputDone
    \/ RecvErr
    \/ Wake
    \/ CloseRecv
    \/ Accept
    \/ DropListener
    \/ \E sid \in Sids : SessionClose(sid)

Spec == Init /\ [][Next]_vars

\* The loop's select! polls its ready branches in random order, so a branch
\* that is ready again and again is taken; an await of input or of the
\* sleep returns.
LiveSpec ==
    /\ Init
    /\ [][Next]_vars
    /\ SF_vars(CloseRecv)
    /\ WF_vars(InputDone)
    /\ WF_vars(Wake)

\* ------------------------------------------------------------- properties
\* Every accept item produced so far, in the order accept returns them.
Items == accepted \o acceptQ

\* The step is one datagram handled by the loop.
DatagramStep == nRecv' = nRecv + 1

\* The step is one close notification taken off the channel by the loop.
CloseStep == closeChan # <<>> /\ closeChan' = Tail(closeChan)

\* C1: no two live sessions share a conversation identifier: every table
\* entry is stored under its own non-zero conv, no session is stored twice,
\* and a datagram with identifier 0 is given a conv that is not 0 and is
\* not in the table when it arrives; the session created for it has it.
ConvsDistinct ==
    /\ [](\A c \in DOMAIN sessions :
            /\ c # 0
            /\ sessions[c].conv = c
            /\ \A d \in DOMAIN sessions :
                   sessions[d].sid = sessions[c].sid => d = c)
    /\ [][(DatagramStep /\ ev'.hdr = 0) =>
            /\ ev'.conv # 0
            /\ ev'.conv \notin DOMAIN sessions
            /\ made' # made => made'[Len(made')] = ev'.conv]_vars

\* A zero-identifier datagram got its conv while another session was live.
ConvsDistinctWitness ==
    /\ ev.type = "datagram" /\ ev.hdr = 0
    /\ ev.conv \in DOMAIN sessions
    /\ Cardinality(DOMAIN sessions) = 2

\* C2: when a datagram creates a session while the accept queue is full,
\* the loop iteration ends with no table entry for that conv, no accept
\* item enqueued and nothing forwarded to any session's input.
QueueFullRollback ==
    [][(DatagramStep /\ made' # made /\ Len(acceptQ) = Backlog) =>
        /\ ev'.conv \notin DOMAIN sessions'
        /\ acceptQ' = acceptQ
        /\ cur' = NoPkt /\ pc' = "select"
        /\ inputs' = inputs]_vars

\* A session was created on a full queue and rolled back.
QueueFullRollbackWitness ==
    /\ ev.type = "datagram"
    /\ Len(acceptQ) = Backlog
    /\ made # <<>> /\ made[Len(made)] = ev.conv
    /\ \A i \in 1..Len(Items) : Items[i].sid # Len(made)
    /\ ev.conv \notin DOMAIN sessions

\* C3: a session's input observes the datagrams bearing its conv in the
\* order the socket received them: every datagram whose conv has a session
\* in the table once it is handled is the packet forwarded next, the packet
\* is appended to that session's observations when input returns, and the
\* observations of every session are in increasing order of receipt.
InputOrder ==
    /\ [](\A s \in Sids :
            LET log == inputs[s] \o (IF cur.sid = s THEN <<cur>> ELSE <<>>)
            IN  \A i, j \in 1..Len(log) : i < j => log[i].seq < log[j].seq)
    /\ [][(DatagramStep /\ ev'.conv \in DOMAIN sessions') =>
            /\ pc' = "input"
            /\ cur' = [sid |-> sessions'[ev'.conv].sid, seq |-> nRecv',
                       conv |-> ev'.conv]]_vars
    /\ [][inputs' # inputs =>
            /\ pc = "input"
            /\ inputs' = [inputs EXCEPT ![cur.sid] = Append(@, cur)]]_vars

\* A session observed two datagrams with another event handled in between.
InputOrderWitness ==
    \E s \in Sids :
        /\ Len(inputs[s]) >= 2
        /\ inputs[s][2].seq > inputs[s][1].seq + 1
        /\ nPush > 0

\* C4: every session created and kept has exactly one accept item, with the
\* peer address of the datagram that created it, and accept returns it once;
\* a datagram for a conv already in the table produces no item; with no
\* close notification so far the items have pairwise distinct convs.
AcceptOnce ==
    /\ [](/\ \A i, j \in 1..Len(Items) :
                Items[i].sid = Items[j].sid => i = j
          /\ \A i \in 1..Len(Items) :
                /\ Items[i].sid \in 1..Len(made)
                /\ made[Items[i].sid] = Items[i].conv
          /\ \A c \in DOMAIN sessions :
                \E i \in 1..Len(Items) :
                    /\ Items[i].sid = sessions[c].sid
                    /\ Items[i].peer = sessions[c].peer
                    /\ Items[i].conv = c
          /\ nPush = 0 =>
                /\ Len(Items) = Cardinality(DOMAIN sessions)
                /\ \A i, j \in 1..Len(Items) :
                       Items[i].conv = Items[j].conv => i = j)
    /\ [][DatagramStep =>
            IF made' # made /\ Len(acceptQ) < Backlog
            THEN /\ acceptQ' = Append(acceptQ,
                        [sid |-> Len(made'), conv |-> ev'.conv,
                         peer |-> ev'.peer])
                 /\ sessions'[ev'.conv].peer = ev'.peer
            ELSE acceptQ' = acceptQ]_vars
    /\ [][accepted' # accepted =>
            /\ acceptQ # <<>>
            /\ accepted' = Append(accepted, Head(acceptQ))
            /\ acceptQ' = Tail(acceptQ)]_vars

\* Two sessions created by two peers were each accepted once.
AcceptOnceWitness ==
    /\ Len(accepted) = 2
    /\ accepted[1].peer # accepted[2].peer
    /\ accepted[1].conv # accepted[2].conv
    /\ nPush = 0

\* C5: accept returns connections in the order their sessions were created
\* and enqueued.
AcceptFifo ==
    \A i, j \in 1..Len(Items) : i < j => Items[i].sid < Items[j].sid

\* Two connections were accepted, the one created first returned first.
AcceptFifoWitness ==
    /\ Len(accepted) >= 2
    /\ accepted[1].sid < accepted[2].sid

\* C6: a datagram whose conv is in the table goes to the session stored
\* there, whatever its source address: the table (and so the session's
\* peer address) is unchanged, no session and no accept item is created.
RouteExisting ==
    [][(DatagramStep /\ ev'.hdr \in DOMAIN sessions) =>
        /\ sessions' = sessions
        /\ made' = made
        /\ acceptQ' = acceptQ
        /\ pc' = "input"
        /\ cur' = [sid |-> sessions[ev'.hdr].sid, seq |-> nRecv',
                   conv |-> ev'.hdr]]_vars

\* A datagram from another address was routed to an existing session.
RouteExistingWitness ==
    /\ ev.type = "datagram"
    /\ ev.hdr \in DOMAIN sessions
    /\ sessions[ev.hdr].peer # ev.peer
    /\ cur.sid = sessions[ev.hdr].sid

\* C7: processing a close notification for conv c leaves the table without
\* c and with every other entry as it was, changes nothing when c was not
\* in the table, leaves the accept queue alone and keeps the loop running.
CloseIdempotent ==
    [][CloseStep =>
        LET c == Head(closeChan).conv
        IN  /\ DOMAIN sessions' = DOMAIN sessions \ {c}
            /\ \A d \in DOMAIN sessions' : sessions'[d] = sessions[d]
            /\ c \notin DOMAIN sessions => sessions' = sessions
            /\ acceptQ' = acceptQ
            /\ task' = "running" /\ pc' = "select"]_vars

\* The same conv was closed twice in succession, the second time absent.
CloseIdempotentWitness ==
    ev.type = "close" /\ ev.again /\ ~ev.present

\* C8: every close notification pushed onto the channel is eventually
\* received by the loop, unless the listener is dropped.
CloseEventuallyRemoved ==
    \A k \in 1..MaxClose :
        (\E i \in 1..Len(closeChan) : closeChan[i].k = k)
            ~> (\/ \A i \in 1..Len(closeChan) : closeChan[i].k # k
                \/ task = "aborted")

\* What the loop does guarantee: a pushed notification is received unless
\* the loop task stops first (LiveSpec).
CloseRemovedWhileRunning ==
    \A k \in 1..MaxClose :
        (\E i \in 1..Len(closeChan) : closeChan[i].k = k)
            ~> (\/ \A i \in 1..Len(closeChan) : closeChan[i].k # k
                \/ task # "running")

\* C9: the loop is never blocked by a session's input: while input is
\* suspended, a pending close notification can still be taken.
InputNeverBlocksLoop ==
    (task = "running" /\ pc = "input" /\ closeChan # <<>>)
        => ENABLED CloseRecv

\* C10: whatever datagrams, receive errors, creation failures, queue
\* rejections and close notifications occur, the loop task is running,
\* unless the listener was dropped or the close channel closed.
LoopKeepsRunning == task \in {"running", "aborted", "fatal"}

\* C11: a socket receive error leaves the table, the accept queue and every
\* session's input alone and keeps the loop task running; during the pause
\* the loop handles nothing, and the pause ends with the loop back at its
\* select, the table and the queues as the error left them.
RecvErrorHarmless ==
    /\ [][(pc = "select" /\ pc' = "sleep") =>
            /\ task' = "running"
            /\ UNCHANGED <<sessions, acceptQ, inputs, cur, closeChan, made,
                           nRecv>>]_vars
    /\ [][pc = "sleep" =>
            /\ UNCHANGED <<sessions, inputs, cur, nRecv>>
            /\ Len(closeChan') >= Len(closeChan)
            /\ pc' \in {"sleep", "select"}
            /\ pc' = "select" =>
                   task' = "running" /\ UNCHANGED <<acceptQ, closeChan>>]_vars
    /\ [](task = "running" /\ pc = "sleep" => ENABLED Wake)

\* The loop pauses after a receive error while a session is in the table
\* and a close notification is waiting.
RecvErrorHarmlessWitness ==
    /\ task = "running"
    /\ pc = "sleep"
    /\ DOMAIN sessions # {}
    /\ closeChan # <<>>
    /\ acceptQ # <<>>

\* C12: when get_or_create fails, the table is unchanged, nothing is put on
\* the accept queue, the datagram is forwarded to no session, and the loop
\* task goes on at its select.
CreateFailureHarmless ==
    [][(DatagramStep /\ ev'.failed) =>
        /\ UNCHANGED <<sessions, acceptQ, inputs, cur, made, closeChan>>
        /\ cur' = NoPkt
        /\ task' = "running"
        /\ pc' = "select"]_vars

\* Creation failed for a new conv while another session was in the table
\* and its accept item was queued.
CreateFailureHarmlessWitness ==
    /\ ev.type = "datagram"
    /\ ev.failed
    /\ ev.conv \notin DOMAIN sessions
    /\ DOMAIN sessions # {}
    /\ acceptQ # <<>>

AcceptQueueBounded ==
    /\ [](Len(acceptQ) <= Backlog)
    /\ [][(DatagramStep /\ Len(acceptQ) = Backlog) =>
            /\ acceptQ' = acceptQ
            /\ pc' \in {"select", "input"}
            /\ made' # made =>
                   /\ ev'.conv \notin DOMAIN sessions'
                   /\ pc' = "select"
                   /\ task' = "running"]_vars

\* A datagram with conv 0 arrived while the queue was full: a conv was
\* allocated and the session is not in the table.
AcceptQueueBoundedWitness ==
    /\ Len(acceptQ) = Backlog
    /\ ev.type = "datagram"
    /\ ev.hdr = 0
    /\ ~ev.failed
    /\ task = "running"
    /\ ev.conv \notin DOMAIN sessions

\* C15: dropping the listener stops the loop task: from the drop on no
\* datagram and no close notification is handled, the table, the queues and
\* every session's input stay as they are, and the drop itself sends
\* nothing to any session.
DropAborts ==
    /\ [](dropped => task # "running")
    /\ [][dropped =>
            UNCHANGED <<task, pc, sessions, acceptQ, closeChan, inputs, cur,
                        made, nRecv>>]_vars
    /\ [][(dropped' /\ ~dropped) =>
            UNCHANGED <<pc, sessions, acceptQ, closeChan, inputs, cur, made,
                        nRecv>>]_vars

\* The listener was dropped with sessions in the table, a close
\* notification waiting and an input await pending.
DropAbortsWitness ==
    /\ dropped
    /\ task = "aborted"
    /\ DOMAIN sessions # {}
    /\ closeChan # <<>>
    /\ pc = "input"

\* C16: a full accept queue touches new connections only: a datagram for a
\* conv in the table is forwarded to that session all the same, and a
\* datagram handled while the queue is full leaves every table entry and
\* every queued item as it was.
FullQueueOnlyRejectsNew ==
    [][(DatagramStep /\ Len(acceptQ) = Backlog /\ task' = "running") =>
        /\ acceptQ' = acceptQ
        /\ sessions' = sessions
        /\ (ev'.hdr \in DOMAIN sessions) =>
               /\ pc' = "input"
               /\ cur'.sid = sessions[ev'.hdr].sid
               /\ made' = made
        /\ (made' # made) => ev'.conv \notin DOMAIN sessions']_vars

\* With the queue full, a datagram was forwarded to a session created
\* earlier while another attempt had been rolled back.
FullQueueOnlyRejectsNewWitness ==
    /\ Len(acceptQ) = Backlog
    /\ pc = "input"
    /\ ev.type = "datagram"
    /\ ev.hdr \in DOMAIN sessions
    /\ cur.sid = sessions[ev.hdr].sid
    /\ cur.sid < Len(made)
    /\ made[Len(made)] \notin DOMAIN sessions

\* C17: every datagram handed to a session's input carries in its header
\* the non-zero conv under which that session was created; a datagram that
\* arrived with conv 0 carries the allocated conv, and one that arrived
\* with a non-zero conv carries it unmodified and goes to the session
\* stored under it.
ForwardedHeaderIsSessionConv ==
    /\ \A s \in Sids : \A i \in 1..Len(inputs[s]) :
           /\ inputs[s][i].sid = s
           /\ inputs[s][i].conv # 0
           /\ inputs[s][i].conv = made[s]
    /\ cur # NoPkt =>
           /\ cur.conv # 0
           /\ cur.conv = made[cur.sid]
           /\ cur.conv \in DOMAIN sessions
           /\ sessions[cur.conv].sid = cur.sid
    /\ (cur # NoPkt /\ ev.type = "datagram") =>
           /\ cur.conv = ev.conv
           /\ ev.hdr # 0 => cur.conv = ev.hdr

\* A datagram that arrived with conv 0 is being handed to its session with
\* the allocated conv in its header.
ForwardedHeaderIsSessionConvWitness ==
    /\ pc = "input"
    /\ ev.type = "datagram"
    /\ ev.hdr = 0
    /\ cur.conv = ev.conv
    /\ cur.conv # 0
    /\ \E s \in Sids : s # cur.sid /\ inputs[s] # <<>>

\* C18: an entry leaves the table, or is replaced, only in a step of the
\* loop task that takes a close notification for its conv off the channel;
\* the table changes in no step but a datagram or a close step of the
\* running loop at its select, and a session created and rolled back on a
\* full queue is never seen in the table.
OnlyLoopRemoves ==
    /\ [][\A c \in DOMAIN sessions :
            (c \notin DOMAIN sessions' \/ sessions'[c] # sessions[c]) =>
                CloseStep /\ Head(closeChan).conv = c]_vars
    /\ [][sessions' # sessions =>
            /\ task = "running" /\ pc = "select"
            /\ DatagramStep \/ CloseStep
            /\ UNCHANGED <<accepted, nPush, dropped, acceptFailed>>]_vars

\* A close notification removed one entry and left another in the table.
OnlyLoopRemovesWitness ==
    /\ ev.type = "close"
    /\ ev.present
    /\ ev.conv \notin DOMAIN sessions
    /\ DOMAIN sessions # {}

\* C19: a close notification taken off the channel removes from the table
\* only the session that issued it, never another session stored under the
\* same conv.
CloseRemovesOnlyIssuer ==
    [][CloseStep =>
        \A c \in DOMAIN sessions :
            c \notin DOMAIN sessions' =>
                sessions[c].sid = Head(closeChan).by]_vars

\* C20: the close-notification channel is never closed to the loop: the
\* running loop task holds a sender of it, so recv never yields None and
\* the loop never reaches the "closed" panic.
CloseChannelNeverClosed ==
    /\ task # "fatal"
    /\ task = "running" => 0 \in CloseTxHolders
    /\ (task = "running" /\ pc = "select" /\ closeChan = <<>>) =>
           ~ENABLED CloseRecv

\* Sessions were created and all removed or rolled back, the channel is
\* empty, and the loop task is running at its select.
CloseChannelNeverClosedWitness ==
    /\ task = "running"
    /\ pc = "select"
    /\ Len(made) >= 2
    /\ DOMAIN sessions = {}
    /\ closeChan = <<>>
    /\ ev.type = "close"
====
